---- MODULE Spec2Model ----
(***************************************************************************)
(* Model of backend/main.py: the startup sequence (init_database,          *)
(* create_tables, startup_event), the get_db session dependency and the    *)
(* five /todos handlers, over one "todos" table.                           *)
(*                                                                         *)
(* One request is in flight at a time.  A request runs as the framework    *)
(* runs it: get_db is a generator used as a context manager around the     *)
(* handler, so the handler's return resumes get_db after its yield and an  *)
(* exception of the handler is raised inside get_db at its yield.          *)
(* The body of a handler runs in one database transaction and is one step. *)
(***************************************************************************)
EXTENDS Integers, Sequences, FiniteSets, TLC

\* Number of ids the table's id sequence hands out in a run.
MaxId == 2

\* init_database(max_retries=10, delay=2)
InitMaxRetries == 10
InitDelay == 2
\* delay = min(delay * 1.5, 30)
DelayCap == 30
\* create_tables(max_retries=5)
CreateTablesMaxRetries == 5
\* get_db: max_retries = 3
GetDbMaxRetries == 3
\* Column(String(500)); len(text.strip()) > 500
MaxTextLen == 500

(***************************************************************************)
(* Strings.  A string is the sequence of its runs: Run(c, n) is the        *)
(* character c repeated n times, and neighbouring runs hold different      *)
(* characters, so two strings are equal exactly when their runs are.       *)
(***************************************************************************)
Run(c, n) == [ch |-> c, n |-> n]

\* str.strip() removes the characters for which str.isspace() holds.
IsSpace(c) == c = " "

RECURSIVE TextLen(_)
\* len(s)
TextLen(t) == IF t = <<>> THEN 0 ELSE Head(t).n + TextLen(Tail(t))

RECURSIVE LStrip(_)
LStrip(t) == IF t # <<>> /\ IsSpace(Head(t).ch) THEN LStrip(Tail(t)) ELSE t

RECURSIVE RStrip(_)
RStrip(t) ==
    IF t # <<>> /\ IsSpace(t[Len(t)].ch) THEN RStrip(SubSeq(t, 1, Len(t) - 1)) ELSE t

\* s.strip()
Strip(t) == RStrip(LStrip(t))

\* The texts requests carry.
TextInputs ==
    { <<>>,                                                    \* ""
      <<Run(" ", 3)>>,                                         \* "   "
      <<Run(" ", 1), Run("a", 1), Run(" ", 1), Run("b", 1), Run(" ", 2)>>,  \* " a b  "
      <<Run("a", MaxTextLen)>>,                                \* 500 x "a"
      <<Run("a", MaxTextLen + 1)>>,                            \* 501 x "a"
      <<Run(" ", 1), Run("a", MaxTextLen)>>,                   \* " " + 500 x "a"
      <<Run(" ", MaxTextLen + 1)>> }                           \* 501 x " "

(***************************************************************************)
(* Startup: init_database, create_tables, startup_event.                   *)
(***************************************************************************)
\* A delay is the fraction num/den (the code's float, exactly).
Frac(a, b) == [num |-> a, den |-> b]

FracLeq(x, y) == x.num * y.den <= y.num * x.den

FracEq(x, y) == x.num * y.den = y.num * x.den

\* Faulty variant of NextDelay: the cap is left out.
NextDelayNoCap(d) == Frac(3 * d.num, 2 * d.den)

\* delay = min(delay * 1.5, 30)
NextDelay(d) ==
    IF FracLeq(Frac(3 * d.num, 2 * d.den), Frac(DelayCap, 1))
    THEN Frac(3 * d.num, 2 * d.den)
    ELSE Frac(DelayCap, 1)

\* if attempt < max_retries - 1
InitMayRetry(a) == a < InitMaxRetries - 1

CreateTablesMayRetry(a) == a < CreateTablesMaxRetries - 1

(***************************************************************************)
(* The table and the handlers' bodies.                                     *)
(***************************************************************************)
Ids == 1..MaxId

\* TodoUpdate: a field left out is None, here the empty sequence.
None == <<>>

Some(v) == <<v>>

\* not todo.text or not todo.text.strip()
TextIsEmpty(t) == t = <<>> \/ Strip(t) = <<>>

\* Faulty variant of TextTooLong: the limit is off by one.
TextTooLongOffByOne(t) == TextLen(Strip(t)) > MaxTextLen + 1

\* len(todo.text.strip()) > 500
TextTooLong(t) == TextLen(Strip(t)) > MaxTextLen

\* Faulty variant of NewTodo: the text is stored as sent.
NewTodoKeepsBlanks(t) == [text |-> t, completed |-> FALSE]

\* TodoDB(text=todo.text.strip(), completed=False)
NewTodo(t) == [text |-> Strip(t), completed |-> FALSE]

\* id: Integer primary key, filled from the table's sequence at INSERT
NewId(rows, s) == s

\* The row as the response model Todo serialises it.
Row(i, todo) == [id |-> i, text |-> todo.text, completed |-> todo.completed]

Insert(rows, i, todo) == [j \in DOMAIN rows \cup {i} |-> IF j = i THEN todo ELSE rows[j]]

\* Faulty variant of DeleteRow: the row stays.
DeleteRowKeeps(rows, i) == rows

\* db.delete(todo); db.commit()
DeleteRow(rows, i) == [j \in DOMAIN rows \ {i} |-> rows[j]]

\* Faulty variant of ApplyUpdate: a completed left out is written as False.
ApplyUpdateResetsCompleted(todo, upd) ==
    [text |-> IF upd.text # None THEN Strip(upd.text[1]) ELSE todo.text,
     completed |-> IF upd.completed # None THEN upd.completed[1] ELSE FALSE]

\* todo.text = todo_update.text.strip(); todo.completed = todo_update.completed
ApplyUpdate(todo, upd) ==
    [text |-> IF upd.text # None THEN Strip(upd.text[1]) ELSE todo.text,
     completed |-> IF upd.completed # None THEN upd.completed[1] ELSE todo.completed]

\* What a handler's body leaves: its HTTP status (200, or the HTTPException's
\* status code), the rows of its body, the table and the id sequence.
Outcome(st, b, rows, s) == [status |-> st, body |-> b, store |-> rows, seq |-> s]

\* All the orders a SELECT without ORDER BY can return the rows in.
Orderings(rows) ==
    { f \in [1..Cardinality(DOMAIN rows) -> DOMAIN rows] :
        \A a, b \in DOMAIN f : a # b => f[a] # f[b] }

\* get_todos: db.query(TodoDB).all()
get_todos(rows, s, order, queryOk) ==
    IF ~queryOk THEN Outcome(500, <<>>, rows, s)
    ELSE Outcome(200, [k \in DOMAIN order |-> Row(order[k], rows[order[k]])], rows, s)

\* create_todo; a failed commit is rolled back, and the INSERT it had flushed
\* may (burn) or may not have drawn an id from the sequence.
create_todo(rows, s, todo, commitOk, burn) ==
    IF TextIsEmpty(todo.text) THEN Outcome(400, <<>>, rows, s)
    ELSE IF TextTooLong(todo.text) THEN Outcome(400, <<>>, rows, s)
    ELSE IF ~commitOk THEN Outcome(500, <<>>, rows, IF burn THEN s + 1 ELSE s)
    ELSE LET i == NewId(rows, s)
             t == NewTodo(todo.text)
         IN Outcome(200, <<Row(i, t)>>, Insert(rows, i, t), s + 1)

\* get_todo
get_todo(rows, s, todo_id, queryOk) ==
    IF ~queryOk THEN Outcome(500, <<>>, rows, s)
    ELSE IF todo_id \notin DOMAIN rows THEN Outcome(404, <<>>, rows, s)
    ELSE Outcome(200, <<Row(todo_id, rows[todo_id])>>, rows, s)

\* update_todo
update_todo(rows, s, todo_id, upd, queryOk, commitOk) ==
    IF ~queryOk THEN Outcome(500, <<>>, rows, s)
    ELSE IF todo_id \notin DOMAIN rows THEN Outcome(404, <<>>, rows, s)
    ELSE IF upd.text # None /\ Strip(upd.text[1]) = <<>> THEN Outcome(400, <<>>, rows, s)
    ELSE IF upd.text # None /\ TextTooLong(upd.text[1]) THEN Outcome(400, <<>>, rows, s)
    ELSE IF ~commitOk THEN Outcome(500, <<>>, rows, s)
    ELSE LET t == ApplyUpdate(rows[todo_id], upd)
         IN Outcome(200, <<Row(todo_id, t)>>, Insert(rows, todo_id, t), s)

\* delete_todo
delete_todo(rows, s, todo_id, queryOk, commitOk) ==
    IF ~queryOk THEN Outcome(500, <<>>, rows, s)
    ELSE IF todo_id \notin DOMAIN rows THEN Outcome(404, <<>>, rows, s)
    ELSE IF ~commitOk THEN Outcome(500, <<>>, rows, s)
    ELSE Outcome(200, <<>>, DeleteRow(rows, todo_id), s)

\* Faulty variant of GetDbMayRetry: one attempt too many.
GetDbMayRetryOffByOne(a) == a < GetDbMaxRetries

\* get_db: if attempt < max_retries - 1
GetDbMayRetry(a) == a < GetDbMaxRetries - 1


(***************************************************************************)
(* State.                                                                  *)
(***************************************************************************)
VARIABLES
    phase,        \* "init_database", "create_tables", "startup_event", "serving", "fatal"
    attempt,      \* the running startup loop's attempt
    delay,        \* init_database's delay
    engine,       \* init_database has returned the engine
    tables,       \* create_tables has returned
    tried,        \* connection attempts init_database has made (startup log)
    slept,        \* the delays init_database has slept, in order (startup log)
    store,        \* the todos table: id -> [text, completed]
    seq,          \* the next value of the table's id sequence
    pc,           \* the request: "idle", "get_db", "handler", "returned", "raised", "done"
    req,          \* the request in flight, or the last one
    gattempt,     \* get_db's attempt
    sess,         \* sessions the request's get_db generator holds open
    hres,         \* what the handler returned or raised: [status, body]
    resp,         \* the response to the last request: [status, body]
    pre,          \* the table when the request came in
    deleted,      \* ids whose delete has succeeded
    preDeleted,   \* deleted, when the request came in
    ledger,       \* the client's account: id -> [text, completed] by the 200 responses
    nCreated,     \* creates answered 200
    nDeleted,     \* deletes answered 200
    created,      \* the row of the last create answered 200, until its id is updated or deleted
    yields,       \* times get_db has yielded in the request
    opened,       \* attempts (sessions opened) get_db has made in the request
    openedAfter,  \* of these, the ones made after the handler finished
    probeFails,   \* attempts of the request that failed to open or probe
    probeRetries, \* attempts of the request made right after a failed one
    afterFail,    \* the request's last attempt failed to open or probe
    dbFault       \* the database failed at some point of the request

startupVars == <<phase, attempt, delay, engine, tables, tried, slept>>

tableVars == <<store, seq, deleted, ledger, nCreated, nDeleted, created>>

getDbVars == <<gattempt, sess, yields, opened, openedAfter, probeFails, probeRetries, afterFail>>

vars == <<phase, attempt, delay, engine, tables, tried, slept, store, seq, pc, req,
          gattempt, sess, hres, resp, pre, deleted, preDeleted, ledger,
          nCreated, nDeleted, created, yields, opened, openedAfter, probeFails,
          probeRetries, afterFail, dbFault>>

Empty == [i \in {} |-> 0]

NoResult == [status |-> 0, body |-> <<>>]

Result(st, b) == [status |-> st, body |-> b]

Request(o, i, t, c) == [op |-> o, id |-> i, text |-> t, completed |-> c]

Requests ==
    {Request("list", 0, None, None)}
    \cup {Request("create", 0, Some(t), None) : t \in TextInputs}
    \cup {Request("get", i, None, None) : i \in Ids}
    \cup {Request("delete", i, None, None) : i \in Ids}
    \cup {Request("update", i, t, c) :
            i \in Ids,
            t \in {None} \cup {Some(x) : x \in TextInputs},
            c \in {None, Some(TRUE), Some(FALSE)}}

Init ==
    /\ phase = "init_database"
    /\ attempt = 0
    /\ delay = Frac(InitDelay, 1)
    /\ engine = FALSE
    /\ tables = FALSE
    /\ tried = 0
    /\ slept = <<>>
    /\ store = Empty
    /\ seq = 1
    /\ pc = "idle"
    /\ req = Request("list", 0, None, None)
    /\ gattempt = 0
    /\ sess = 0
    /\ hres = NoResult
    /\ resp = NoResult
    /\ pre = Empty
    /\ deleted = {}
    /\ preDeleted = {}
    /\ ledger = Empty
    /\ nCreated = 0
    /\ nDeleted = 0
    /\ created = <<>>
    /\ yields = 0
    /\ opened = 0
    /\ openedAfter = 0
    /\ probeFails = 0
    /\ probeRetries = 0
    /\ afterFail = FALSE
    /\ dbFault = FALSE

requestVars == <<store, seq, pc, req, gattempt, sess, hres, resp, pre, deleted,
                 preDeleted, ledger, nCreated, nDeleted, created, yields, opened,
                 openedAfter, probeFails, probeRetries, afterFail, dbFault>>

(***************************************************************************)
(* init_database: one action per way an attempt of the loop ends.          *)
(***************************************************************************)
\* create_engine and SELECT 1 succeed: return engine
InitDbConnected ==
    /\ phase = "init_database"
    /\ engine' = TRUE
    /\ tried' = tried + 1
    /\ phase' = "create_tables"
    /\ attempt' = 0
    /\ delay' = Frac(0, 1)
    /\ UNCHANGED <<tables, slept>>
    /\ UNCHANGED requestVars

\* the attempt fails and attempt < max_retries - 1: sleep(delay), grow delay
InitDbRetry ==
    /\ phase = "init_database"
    /\ InitMayRetry(attempt)
    /\ tried' = tried + 1
    /\ slept' = Append(slept, delay)
    /\ delay' = NextDelay(delay)
    /\ attempt' = attempt + 1
    /\ UNCHANGED <<phase, engine, tables>>
    /\ UNCHANGED requestVars

\* the last attempt fails: raise, and the module-level try re-raises
InitDbExhausted ==
    /\ phase = "init_database"
    /\ ~InitMayRetry(attempt)
    /\ tried' = tried + 1
    /\ phase' = "fatal"
    /\ UNCHANGED <<attempt, delay, engine, tables, slept>>
    /\ UNCHANGED requestVars

(***************************************************************************)
(* create_tables                                                           *)
(***************************************************************************)
CreateTablesOk ==
    /\ phase = "create_tables"
    /\ tables' = TRUE
    /\ phase' = "startup_event"
    /\ attempt' = 0
    /\ UNCHANGED <<delay, engine, tried, slept>>
    /\ UNCHANGED requestVars

CreateTablesRetry ==
    /\ phase = "create_tables"
    /\ CreateTablesMayRetry(attempt)
    /\ attempt' = attempt + 1
    /\ UNCHANGED <<phase, delay, engine, tables, tried, slept>>
    /\ UNCHANGED requestVars

CreateTablesExhausted ==
    /\ phase = "create_tables"
    /\ ~CreateTablesMayRetry(attempt)
    /\ phase' = "fatal"
    /\ UNCHANGED <<attempt, delay, engine, tables, tried, slept>>
    /\ UNCHANGED requestVars

(***************************************************************************)
(* startup_event: one probe; the server serves only if it succeeds.  The   *)
(* startup log ends here.                                                  *)
(***************************************************************************)
StartupEventOk ==
    /\ phase = "startup_event"
    /\ phase' = "serving"
    /\ tried' = 0
    /\ slept' = <<>>
    /\ UNCHANGED <<attempt, delay, engine, tables>>
    /\ UNCHANGED requestVars

StartupEventFails ==
    /\ phase = "startup_event"
    /\ phase' = "fatal"
    /\ UNCHANGED <<attempt, delay, engine, tables, tried, slept>>
    /\ UNCHANGED requestVars


(***************************************************************************)
(* A request comes in: the framework calls get_db before the handler.      *)
(***************************************************************************)
Receive(r) ==
    /\ phase = "serving"
    /\ pc = "idle"
    /\ r.op = "create" => seq <= MaxId
    /\ req' = r
    /\ pc' = "get_db"
    /\ gattempt' = 0
    /\ sess' = 0
    /\ hres' = NoResult
    /\ resp' = NoResult
    /\ pre' = store
    /\ preDeleted' = deleted
    /\ yields' = 0
    /\ opened' = 0
    /\ openedAfter' = 0
    /\ probeFails' = 0
    /\ probeRetries' = 0
    /\ afterFail' = FALSE
    /\ dbFault' = FALSE
    /\ UNCHANGED <<store, seq, deleted, ledger, nCreated, nDeleted, created>>
    /\ UNCHANGED startupVars

(***************************************************************************)
(* get_db, one pass of its loop body up to the yield or the except clause: *)
(* db = SessionLocal(); db.execute(text("SELECT 1")).                      *)
(***************************************************************************)
HandlerRan == hres.status # 0

\* What every attempt records.
Attempted ==
    /\ opened' = opened + 1
    /\ openedAfter' = IF HandlerRan THEN openedAfter + 1 ELSE openedAfter
    /\ probeRetries' = IF afterFail THEN probeRetries + 1 ELSE probeRetries

\* The probe succeeds and get_db yields the session: the handler runs.
GetDbYield ==
    /\ pc = "get_db"
    /\ ~HandlerRan
    /\ Attempted
    /\ sess' = 1
    /\ yields' = yields + 1
    /\ afterFail' = FALSE
    /\ pc' = "handler"
    /\ UNCHANGED <<gattempt, probeFails, dbFault, hres, resp, req, pre, preDeleted>>
    /\ UNCHANGED tableVars
    /\ UNCHANGED startupVars

\* The probe succeeds after the handler has raised: get_db yields a second
\* time.  The context manager that threw the handler's exception into the
\* generator gets a value back, raises RuntimeError("generator didn't stop
\* after throw()"), and the request ends in 500.  The generator is left
\* suspended at its yield: its session is closed at once where the context
\* manager closes the generator, and otherwise stays open until the
\* generator is collected.
GetDbYieldAgain ==
    /\ pc = "get_db"
    /\ HandlerRan
    /\ Attempted
    /\ yields' = yields + 1
    /\ afterFail' = FALSE
    /\ \E closedAtOnce \in BOOLEAN : sess' = IF closedAtOnce THEN 0 ELSE 1
    /\ resp' = Result(500, <<>>)
    /\ pc' = "done"
    /\ UNCHANGED <<gattempt, probeFails, dbFault, hres, req, pre, preDeleted>>
    /\ UNCHANGED tableVars
    /\ UNCHANGED startupVars

\* The session cannot be opened or probed and attempt < max_retries - 1:
\* rollback, close, sleep(0.5), continue.
GetDbRetry ==
    /\ pc = "get_db"
    /\ GetDbMayRetry(gattempt)
    /\ Attempted
    /\ probeFails' = probeFails + 1
    /\ afterFail' = TRUE
    /\ dbFault' = TRUE
    /\ gattempt' = gattempt + 1
    /\ sess' = 0
    /\ UNCHANGED <<pc, yields, hres, resp, req, pre, preDeleted>>
    /\ UNCHANGED tableVars
    /\ UNCHANGED startupVars

\* The session cannot be opened or probed on the last attempt:
\* raise HTTPException(status_code=503).
GetDbExhausted ==
    /\ pc = "get_db"
    /\ ~GetDbMayRetry(gattempt)
    /\ Attempted
    /\ probeFails' = probeFails + 1
    /\ afterFail' = TRUE
    /\ dbFault' = TRUE
    /\ sess' = 0
    /\ resp' = Result(503, <<>>)
    /\ pc' = "done"
    /\ UNCHANGED <<gattempt, yields, hres, req, pre, preDeleted>>
    /\ UNCHANGED tableVars
    /\ UNCHANGED startupVars

(***************************************************************************)
(* The handlers.  Each runs with the session get_db yielded.               *)
(***************************************************************************)
\* The handler's outcome o takes effect; it went wrong in the database if fault.
Handled(o, fault) ==
    /\ store' = o.store
    /\ seq' = o.seq
    /\ hres' = Result(o.status, o.body)
    /\ pc' = IF o.status = 200 THEN "returned" ELSE "raised"
    /\ dbFault' = (dbFault \/ fault)
    /\ UNCHANGED <<req, resp, pre, preDeleted>>
    /\ UNCHANGED getDbVars
    /\ UNCHANGED startupVars

GetTodos ==
    /\ pc = "handler"
    /\ req.op = "list"
    /\ \E order \in Orderings(store), queryOk \in BOOLEAN :
          Handled(get_todos(store, seq, order, queryOk), ~queryOk)
    /\ UNCHANGED <<deleted, ledger, nCreated, nDeleted, created>>

CreateTodo ==
    /\ pc = "handler"
    /\ req.op = "create"
    /\ \E commitOk \in BOOLEAN, burn \in BOOLEAN :
          LET o == create_todo(store, seq, [text |-> req.text[1]], commitOk, burn)
              ok == o.status = 200
          IN /\ Handled(o, o.status = 500)
             /\ ledger' = IF ok
                          THEN Insert(ledger, o.body[1].id,
                                      [text |-> Strip(req.text[1]), completed |-> FALSE])
                          ELSE ledger
             /\ nCreated' = IF ok THEN nCreated + 1 ELSE nCreated
             /\ created' = IF ok THEN o.body ELSE created
    /\ UNCHANGED <<deleted, nDeleted>>

GetTodo ==
    /\ pc = "handler"
    /\ req.op = "get"
    /\ \E queryOk \in BOOLEAN :
          Handled(get_todo(store, seq, req.id, queryOk), ~queryOk)
    /\ UNCHANGED <<deleted, ledger, nCreated, nDeleted, created>>

UpdateTodo ==
    /\ pc = "handler"
    /\ req.op = "update"
    /\ \E queryOk \in BOOLEAN, commitOk \in BOOLEAN :
          LET o == update_todo(store, seq, req.id,
                               [text |-> req.text, completed |-> req.completed],
                               queryOk, commitOk)
              ok == o.status = 200
              \* what the client knew of the item (the answer itself, had it no account of it)
              known == IF req.id \in DOMAIN ledger THEN ledger[req.id]
                       ELSE [text |-> o.body[1].text, completed |-> o.body[1].completed]
          IN /\ Handled(o, o.status = 500)
             /\ ledger' = IF ok
                          THEN Insert(ledger, req.id,
                                 [text |-> IF req.text = None THEN known.text
                                           ELSE Strip(req.text[1]),
                                  completed |-> IF req.completed = None
                                                THEN known.completed
                                                ELSE req.completed[1]])
                          ELSE ledger
             /\ created' = IF ok /\ created # <<>> /\ created[1].id = req.id
                           THEN <<>> ELSE created
    /\ UNCHANGED <<deleted, nCreated, nDeleted>>

DeleteTodo ==
    /\ pc = "handler"
    /\ req.op = "delete"
    /\ \E queryOk \in BOOLEAN, commitOk \in BOOLEAN :
          LET o == delete_todo(store, seq, req.id, queryOk, commitOk)
              ok == o.status = 200
          IN /\ Handled(o, o.status = 500)
             /\ ledger' = IF ok THEN [j \in DOMAIN ledger \ {req.id} |-> ledger[j]]
                          ELSE ledger
             /\ deleted' = IF ok THEN deleted \cup {req.id} ELSE deleted
             /\ nDeleted' = IF ok THEN nDeleted + 1 ELSE nDeleted
             /\ created' = IF ok /\ created # <<>> /\ created[1].id = req.id
                           THEN <<>> ELSE created
    /\ UNCHANGED nCreated

(***************************************************************************)
(* get_db after its yield.                                                 *)
(***************************************************************************)
\* The handler returned: get_db resumes after the yield, break, and the
\* finally clause closes the session.  The handler's result is the response.
GetDbResume ==
    /\ pc = "returned"
    /\ sess' = 0
    /\ resp' = hres
    /\ pc' = "done"
    /\ UNCHANGED <<gattempt, yields, opened, openedAfter, probeFails, probeRetries,
                   afterFail, dbFault, hres, req, pre, preDeleted>>
    /\ UNCHANGED tableVars
    /\ UNCHANGED startupVars

\* The handler raised: its HTTPException is raised at the yield, where
\* "except Exception" catches it; rollback, close, and with
\* attempt < max_retries - 1: sleep(0.5), continue with the next attempt.
GetDbCatchRetry ==
    /\ pc = "raised"
    /\ GetDbMayRetry(gattempt)
    /\ sess' = 0
    /\ gattempt' = gattempt + 1
    /\ afterFail' = FALSE
    /\ pc' = "get_db"
    /\ UNCHANGED <<yields, opened, openedAfter, probeFails, probeRetries, dbFault, hres,
                   resp, req, pre, preDeleted>>
    /\ UNCHANGED tableVars
    /\ UNCHANGED startupVars

\* The handler raised on get_db's last attempt: the except clause raises
\* HTTPException(status_code=503) in place of the handler's exception.
GetDbCatchExhausted ==
    /\ pc = "raised"
    /\ ~GetDbMayRetry(gattempt)
    /\ sess' = 0
    /\ afterFail' = FALSE
    /\ resp' = Result(503, <<>>)
    /\ pc' = "done"
    /\ UNCHANGED <<gattempt, yields, opened, openedAfter, probeFails, probeRetries,
                   dbFault, hres, req, pre, preDeleted>>
    /\ UNCHANGED tableVars
    /\ UNCHANGED startupVars

\* The response is sent and the request's context is dropped: a get_db
\* generator left suspended is collected (GeneratorExit at its yield, and the
\* finally clause closes its session), and nothing of the request remains.
RequestEnds ==
    /\ pc = "done"
    /\ pc' = "idle"
    /\ req' = Request("list", 0, None, None)
    /\ gattempt' = 0
    /\ sess' = 0
    /\ hres' = NoResult
    /\ resp' = NoResult
    /\ pre' = Empty
    /\ preDeleted' = {}
    /\ yields' = 0
    /\ opened' = 0
    /\ openedAfter' = 0
    /\ probeFails' = 0
    /\ probeRetries' = 0
    /\ afterFail' = FALSE
    /\ dbFault' = FALSE
    /\ UNCHANGED tableVars
    /\ UNCHANGED startupVars

Next ==
    \/ InitDbConnected
    \/ InitDbRetry
    \/ InitDbExhausted
    \/ CreateTablesOk
    \/ CreateTablesRetry
    \/ CreateTablesExhausted
    \/ StartupEventOk
    \/ StartupEventFails
    \/ \E r \in Requests : Receive(r)
    \/ GetDbYield
    \/ GetDbYieldAgain
    \/ GetDbRetry
    \/ GetDbExhausted
    \/ GetTodos
    \/ CreateTodo
    \/ GetTodo
    \/ UpdateTodo
    \/ DeleteTodo
    \/ GetDbResume
    \/ GetDbCatchRetry
    \/ GetDbCatchExhausted
    \/ RequestEnds

Spec == Init /\ [][Next]_vars


(***************************************************************************)
(* Properties.  A request is judged in the state where its response is     *)
(* made (pc = "done"): req is the request, resp the response, pre the      *)
(* table when it came in, store the table it leaves.                       *)
(***************************************************************************)
Done == pc = "done"

\* The text is valid: non-empty after trimming, at most 500 characters after trimming.
ValidText(t) == Strip(t) # <<>> /\ TextLen(Strip(t)) <= MaxTextLen

\* C1: a create with a valid text answers, unless the database fails, with an
\* item whose completed is false, whose text is the trimmed input and whose id
\* is a positive integer no stored item held, and which is the row stored; a
\* get of that id, with no update or delete of it in between, answers, unless
\* the database fails, with the same id, text and completed.
C1_CreateThenGet ==
    /\ (Done /\ req.op = "create" /\ ValidText(req.text[1])) =>
          /\ resp.status # 200 => dbFault
          /\ resp.status = 200 =>
                /\ Len(resp.body) = 1
                /\ resp.body[1].completed = FALSE
                /\ resp.body[1].text = Strip(req.text[1])
                /\ resp.body[1].id > 0
                /\ resp.body[1].id \notin DOMAIN pre
                /\ resp.body[1].id \in DOMAIN store
                /\ Row(resp.body[1].id, store[resp.body[1].id]) = resp.body[1]
    /\ (Done /\ req.op = "get" /\ created # <<>> /\ req.id = created[1].id) =>
          /\ resp.status # 200 => dbFault
          /\ resp.status = 200 => resp.body = created

\* C1 witness: a text sent with surrounding blanks was created and then read back.
C1_Witness ==
    /\ Done
    /\ req.op = "get"
    /\ resp.status = 200
    /\ created # <<>>
    /\ req.id = created[1].id
    /\ resp.body = created
    /\ created[1].text = <<Run("a", 1), Run(" ", 1), Run("b", 1)>>

\* C2: an update answered 200 changes only the fields it supplies (which take
\* the supplied values, the text trimmed): a field left out keeps its stored
\* value, the id and every other stored item are unchanged, and the item
\* returned is the stored item after the update.
C2_UpdateChangesOnlySupplied ==
    (Done /\ req.op = "update" /\ resp.status = 200) =>
        /\ req.id \in DOMAIN pre
        /\ DOMAIN store = DOMAIN pre
        /\ \A j \in DOMAIN pre \ {req.id} : store[j] = pre[j]
        /\ req.text = None => store[req.id].text = pre[req.id].text
        /\ req.completed = None => store[req.id].completed = pre[req.id].completed
        /\ req.text # None => store[req.id].text = Strip(req.text[1])
        /\ req.completed # None => store[req.id].completed = req.completed[1]
        /\ resp.body = <<Row(req.id, store[req.id])>>

\* C2 witness: {completed: true} alone on an item not completed, beside another item.
C2_Witness ==
    /\ Done
    /\ req.op = "update"
    /\ resp.status = 200
    /\ req.text = None
    /\ req.completed = Some(TRUE)
    /\ pre[req.id].completed = FALSE
    /\ store[req.id].completed = TRUE
    /\ Cardinality(DOMAIN store) >= 2

\* C3 (as claimed): once a delete of id i has succeeded, every later get of i
\* and every later delete of i answers 404 (here: in every request in which
\* the database does not fail), and i is never a stored id again.
C3_DeletedStays404 ==
    /\ deleted \cap DOMAIN store = {}
    /\ (Done /\ req.op \in {"get", "delete"} /\ req.id \in preDeleted /\ ~dbFault) =>
          resp.status = 404

InvalidText(t) == Strip(t) = <<>> \/ TextLen(Strip(t)) > MaxTextLen

\* C5 (as claimed): a create, update or delete answered with an error leaves
\* the table as it was; a create with an empty or whitespace-only text is
\* answered with a client error (4xx; here: when the database does not fail)
\* and stores no row; an update with an invalid text and a completed value
\* changes neither field.
C5_ErrorsLeaveStoreAndAre4xx ==
    /\ (Done /\ req.op \in {"create", "update", "delete"} /\ resp.status # 200) =>
          store = pre
    /\ (Done /\ req.op = "create" /\ Strip(req.text[1]) = <<>> /\ ~dbFault) =>
          /\ resp.status \in 400..499
          /\ store = pre
    /\ (Done /\ req.op = "update" /\ req.text # None /\ req.completed # None
             /\ InvalidText(req.text[1])) =>
          store = pre

\* C6 (as claimed, for the 501-character texts that have no surrounding
\* blanks, in requests in which the database does not fail): a create whose
\* text has length 501 is answered 400 and stores nothing.
C6_Length501Is400 ==
    (Done /\ req.op = "create" /\ TextLen(req.text[1]) = MaxTextLen + 1
          /\ Strip(req.text[1]) = req.text[1] /\ ~dbFault) =>
        /\ resp.status = 400
        /\ store = pre

\* C7: in every reachable state each stored item has a text that is non-empty
\* and at most 500 characters long, and a completed that is true or false.
C7_StoredItemsValid ==
    \A i \in DOMAIN store :
        /\ store[i].text # <<>>
        /\ TextLen(store[i].text) >= 1
        /\ TextLen(store[i].text) <= MaxTextLen
        /\ store[i].completed \in BOOLEAN

\* C7 witness: an update wrote a text of exactly 500 characters, cut down from
\* 501 by trimming, over the text a create had stored.
C7_Witness ==
    /\ Done
    /\ req.op = "update"
    /\ resp.status = 200
    /\ req.text = Some(<<Run(" ", 1), Run("a", MaxTextLen)>>)
    /\ TextLen(store[req.id].text) = MaxTextLen
    /\ TextLen(pre[req.id].text) < MaxTextLen

RECURSIVE Pow(_, _)
Pow(b, e) == IF e = 0 THEN 1 ELSE b * Pow(b, e - 1)

\* The k-th wait as the claim gives it: 2 * 1.5^(k-1), and 30 where that is more.
ClaimedDelay(k) ==
    IF InitDelay * Pow(3, k - 1) <= DelayCap * Pow(2, k - 1)
    THEN Frac(InitDelay * Pow(3, k - 1), Pow(2, k - 1))
    ELSE Frac(DelayCap, 1)

C8_State ==
    /\ tried <= InitMaxRetries
    /\ Len(slept) <= InitMaxRetries - 1
    /\ \A k \in 1..Len(slept) :
          /\ FracEq(slept[k], ClaimedDelay(k))
          /\ FracLeq(slept[k], Frac(DelayCap, 1))
    /\ phase = "init_database" => (~engine /\ tried = Len(slept))
    /\ phase \in {"create_tables", "startup_event"} => (engine /\ tried = Len(slept) + 1)
    /\ (phase = "fatal" /\ ~engine) =>
          (tried = InitMaxRetries /\ Len(slept) = InitMaxRetries - 1)
    /\ phase = "serving" => (engine /\ tables)
    /\ pc # "idle" => phase = "serving"
    /\ ~engine => (store = Empty /\ seq = 1)

C8_Step ==
    /\ phase = "init_database" =>
          /\ tried' = tried + 1
          /\ \/ phase' = "init_database" /\ ~engine' /\ tried' < InitMaxRetries
                  /\ Len(slept') = Len(slept) + 1
             \/ phase' = "create_tables" /\ engine' /\ slept' = slept
             \/ phase' = "fatal" /\ ~engine' /\ tried' = InitMaxRetries /\ slept' = slept
    /\ (engine /\ phase # "startup_event") => tried' = tried
    /\ phase = "fatal" => phase' = "fatal"

\* C8: init_database makes at most max_retries = 10 attempts, each step of it
\* being one more attempt; it returns the engine at the first attempt that
\* succeeds and attempts no more; it waits after each failed attempt but the
\* last, the k-th wait being 2 * 1.5^(k-1) and never more than 30; when all
\* attempts fail it raises and the process never serves; handlers run only in
\* the serving phase, with the engine and the tables set up.
C8_InitDatabase == []C8_State /\ [][C8_Step]_vars

\* C8 witness: all ten attempts failed, after nine waits the last of which was 30.
C8_Witness ==
    /\ phase = "fatal"
    /\ ~engine
    /\ tried = InitMaxRetries
    /\ Len(slept) = InitMaxRetries - 1
    /\ FracEq(slept[Len(slept)], Frac(DelayCap, 1))

\* C9 (as claimed): at request time a failed attempt to open or probe a
\* session is never repeated within the request.
C9_NoRetryAtRequestTime == probeRetries = 0

\* C9 (amended): within a request get_db makes at most max_retries = 3
\* attempts, so a failed attempt to open or probe a session is repeated at
\* most twice; it is repeated only while fewer than 3 attempts have been
\* made, and when the third attempt fails the request is answered 503.  The
\* startup loops retry too: init_database up to 10 attempts, create_tables up to 5.
C9_BoundedRetryAtRequestTime ==
    /\ phase = "init_database" => attempt <= InitMaxRetries - 1
    /\ phase = "create_tables" => attempt <= CreateTablesMaxRetries - 1
    /\ opened <= GetDbMaxRetries
    /\ probeRetries <= GetDbMaxRetries - 1
    /\ probeRetries <= probeFails
    /\ (pc = "get_db" /\ afterFail) => opened < GetDbMaxRetries
    /\ (Done /\ afterFail) => (opened = GetDbMaxRetries /\ resp.status = 503)

\* C9 witness: three attempts failed, two of them repeats, and the answer is 503.
C9_Witness ==
    /\ Done
    /\ probeFails = GetDbMaxRetries
    /\ probeRetries = GetDbMaxRetries - 1
    /\ resp.status = 503

\* C10 (as claimed): in every request get_db yields a session at most once;
\* after the handler has finished, returned or raised, get_db opens no
\* session and does not yield again; and when the request ends every session
\* get_db opened is closed.
C10_GetDbYieldsOnce ==
    /\ yields <= 1
    /\ openedAfter = 0
    /\ Done => sess = 0

====
